---- MODULE Spec2Model ----
(***************************************************************************)
(* OsmExplorer: the offline-caching service worker (service-worker.js) and *)
(* the page script (main.js) as state machines.                            *)
(*                                                                         *)
(* Spec      the service worker: install, activate, fetch events           *)
(* GenSpec   the worker beside the install of its next generation          *)
(* PageSpec  the page: search, geolocation, POIs, routing                  *)
(***************************************************************************)
EXTENDS Integers, Sequences, FiniteSets, TLC

\* ---------------------------------------------------------------- bounds
MaxEvents == 2      \* fetch events delivered to the worker
MaxBody == 2        \* distinct payloads the network may return over time
MaxActions == 4     \* clicks that start a request or a route

\* ------------------------------------------------------- service-worker.js
CACHE_NAME == "osm-explorer-cache-v1"

CORE_ASSETS ==
  { "./", "/index.html", "/style.css", "/main.js", "/manifest.json",
    "/icons/icon-192.png", "/icons/icon-512.png" }

\* Cache generations left behind by other versions of the worker.
StaleNames == { "osm-explorer-cache-v0", "osm-explorer-cache-v2" }

AllNames == StaleNames \cup { CACHE_NAME }

\* Requests the page sends through the worker: an app asset, a map tile
\* (cross-origin <img>, no CORS), a geocoder call (fetch, CORS) and a
\* request whose URL is not http(s).
TileRequest == "https://a.tile.openstreetmap.org/13/1430/3300.png"
ApiRequest == "https://nominatim.openstreetmap.org/search"
ExtRequest == "chrome-extension://abc/inject.js"

FetchRequests == { "/main.js", TileRequest, ApiRequest, ExtRequest }

Requests == CORE_ASSETS \cup FetchRequests

\* new URL(event.request.url).protocol, as a sequence of characters
ProtocolOf(req) ==
  IF req = ExtRequest
    THEN << "c","h","r","o","m","e","-","e","x","t","e","n","s","i","o","n",":" >>
    ELSE << "h","t","t","p","s",":" >>

\* The whole string is compared.
StartsWith_Equals(s, prefix) == s = prefix

\* String.prototype.startsWith
StartsWith(s, prefix) ==
  /\ Len(s) >= Len(prefix)
  /\ SubSeq(s, 1, Len(prefix)) = prefix

IsHttp(req) == StartsWith(ProtocolOf(req), << "h","t","t","p" >>)

\* Response.type of what the network returns for a request: tiles are
\* loaded by <img> without CORS from another origin and are opaque.
ResponseTypeOf(req) ==
  IF req = TileRequest THEN "opaque"
  ELSE IF req = ApiRequest THEN "cors"
  ELSE "basic"

NoResp == [type |-> "none", body |-> 0]

NetResp(req, b) == [type |-> ResponseTypeOf(req), body |-> b]

EmptyCache == [r \in Requests |-> NoResp]

VARIABLES
  swState,        \* lifecycle state of the worker
  installPc,      \* position in the install handler's promise chain
  skipWaitingCalled,
  activatePc,     \* position in the activate handler's promise chain
  claimCalled,    \* self.clients.claim() has been called
  toDelete,       \* cache names for which caches.delete was mapped
  deleted,        \* cache names deleted by the activate handler
  activateStart,  \* cache storage when the activate handler started
  cacheNames,     \* cache storage: names of the caches, in creation order
  cacheData,      \* cache storage: entries of each cache
  events,         \* the fetch events delivered so far
  online          \* the network is reachable

swVars == << swState, installPc, skipWaitingCalled, activatePc, claimCalled,
             toDelete, deleted, activateStart, cacheNames, cacheData,
             events, online >>

\* ------------------------------------------------------------------ main.js
VARIABLES
  currentLocation,  \* 0 (null) or the position of the last geolocation
  userMarker,       \* 0 (none) or the position of the 'Your location' marker
  geolocPending,    \* getCurrentPosition calls not yet answered
  selectMode,
  selectActive,     \* selectButton has the class 'active'
  selectedMarker,   \* 0 (null) or the position of the selected marker
  poiLayer,         \* 0 (null) or the layer group poiLayer refers to
  mapPoiLayers,     \* the POI layer groups that are on the map
  nextLayer,        \* layer groups created so far
  poiClasses,       \* classes of poiButton among 'loading' and 'active'
  poiRequests,      \* Overpass requests in flight
  geoRequests,      \* Nominatim requests in flight
  markers,          \* markers of the search results, with their popups
  waypoints,        \* waypoints of the routing control
  routingOnMap,     \* the routing control was added to the map
  routeHandlers,    \* handlers registered for 'routesfound' / 'routingerror'
  routePending,     \* a route request is in flight
  panelRenders,     \* calls of showDirections
  alerts,           \* calls of alert
  failedLast,       \* the handler that ran last was a failure handler
  poiHidden,        \* the last poiButton click removed the POI layer
  routeClicked,     \* the handler that ran last was a click on a route button
  userActions       \* user actions so far

pageVars == << currentLocation, userMarker, geolocPending, selectMode,
               selectActive, selectedMarker, poiLayer, mapPoiLayers, nextLayer,
               poiClasses, poiRequests, geoRequests, markers, waypoints,
               routingOnMap, routeHandlers, routePending, panelRenders, alerts,
               failedLast, poiHidden, routeClicked, userActions >>

vars == << swVars, pageVars >>

\* ------------------------------------------------------- cache storage
SeqToSet(s) == { s[i] : i \in 1..Len(s) }

\* caches.open(name): the names after opening (created when missing)
OpenNames(names, name) ==
  IF name \in SeqToSet(names) THEN names ELSE Append(names, name)

RECURSIVE RemoveName(_, _)
RemoveName(names, name) ==
  IF names = << >> THEN << >>
  ELSE IF Head(names) = name THEN RemoveName(Tail(names), name)
  ELSE << Head(names) >> \o RemoveName(Tail(names), name)

\* caches.match(request): the first match over the caches in creation order
RECURSIVE MatchIn(_, _, _)
MatchIn(names, data, req) ==
  IF names = << >> THEN NoResp
  ELSE IF data[Head(names)][req] # NoResp THEN data[Head(names)][req]
  ELSE MatchIn(Tail(names), data, req)

CachesMatch(req) == MatchIn(cacheNames, cacheData, req)

\* The sequences that list every element of S once
Orderings(S) ==
  { s \in [1..Cardinality(S) -> S] : \A i, j \in DOMAIN s : s[i] = s[j] => i = j }

\* What an older generation left in its cache: an old copy of an asset
StaleContent ==
  [EmptyCache EXCEPT !["/main.js"] = [type |-> "basic", body |-> 0]]

\* ------------------------------------------------------------- Init
SWInit ==
  /\ swState = "parsed"
  /\ installPc = "idle"
  /\ skipWaitingCalled = FALSE
  /\ activatePc = "idle"
  /\ claimCalled = FALSE
  /\ toDelete = {}
  /\ deleted = {}
  /\ activateStart = [names |-> {}, current |-> EmptyCache]
  /\ \E present \in SUBSET StaleNames :
       /\ cacheNames \in Orderings(present)
       /\ cacheData = [n \in AllNames |->
                         IF n \in present THEN StaleContent ELSE EmptyCache]
  /\ events = << >>
  /\ online \in BOOLEAN

\* ------------------------------------------------- install (lines 16-24)
InstallEvent ==
  /\ swState = "parsed"
  /\ swState' = "installing"
  /\ installPc' = "open"
  /\ UNCHANGED << skipWaitingCalled, activatePc, claimCalled, toDelete, deleted,
                  activateStart, cacheNames, cacheData, events, online >>
  /\ UNCHANGED pageVars

\* caches.open(CACHE_NAME)
InstallOpen ==
  /\ installPc = "open"
  /\ cacheNames' = OpenNames(cacheNames, CACHE_NAME)
  /\ installPc' = "addAll"
  /\ UNCHANGED << swState, skipWaitingCalled, activatePc, claimCalled, toDelete,
                  deleted, activateStart, cacheData, events, online >>
  /\ UNCHANGED pageVars

\* The assets that could be fetched are stored and the promise resolves.
AddAll_Partial(entries, assets, failed) ==
  [ok |-> TRUE,
   entries |-> [r \in Requests |->
                  IF r \in assets \ failed THEN NetResp(r, 1) ELSE entries[r]]]

\* cache.addAll(assets): every asset is fetched; the entries are written
\* together, and only when no fetch failed. failed = the assets whose fetch
\* or store failed. The copies fetched at install time carry payload 1.
AddAll(entries, assets, failed) ==
  IF failed = {}
    THEN [ok |-> TRUE,
          entries |-> [r \in Requests |->
                         IF r \in assets THEN NetResp(r, 1) ELSE entries[r]]]
    ELSE [ok |-> FALSE, entries |-> entries]

InstallAddAll ==
  /\ installPc = "addAll"
  /\ \E failed \in SUBSET CORE_ASSETS :
       /\ ~online => failed = CORE_ASSETS
       /\ LET res == AddAll(cacheData[CACHE_NAME], CORE_ASSETS, failed) IN
            /\ cacheData' = [cacheData EXCEPT ![CACHE_NAME] = res.entries]
            /\ IF res.ok
                 THEN /\ installPc' = "skipWaiting"
                      /\ swState' = swState
                 ELSE \* waitUntil's promise rejects: the install fails
                      /\ installPc' = "rejected"
                      /\ swState' = "redundant"
  /\ UNCHANGED << skipWaitingCalled, activatePc, claimCalled, toDelete, deleted,
                  activateStart, cacheNames, events, online >>
  /\ UNCHANGED pageVars

\* .then(() => self.skipWaiting()); waitUntil's promise resolves
InstallSkipWaiting ==
  /\ installPc = "skipWaiting"
  /\ skipWaitingCalled' = TRUE
  /\ installPc' = "resolved"
  /\ swState' = "installed"
  /\ UNCHANGED << activatePc, claimCalled, toDelete, deleted, activateStart,
                  cacheNames, cacheData, events, online >>
  /\ UNCHANGED pageVars

\* ------------------------------------------------ activate (lines 26-41)
\* The synchronous part of the handler: caches.keys() is started and
\* self.clients.claim() is called.
ActivateEvent ==
  /\ swState = "installed"
  /\ swState' = "activating"
  /\ activatePc' = "keys"
  /\ claimCalled' = TRUE
  /\ activateStart' = [names |-> SeqToSet(cacheNames),
                        current |-> cacheData[CACHE_NAME]]
  /\ UNCHANGED << installPc, skipWaitingCalled, toDelete, deleted, cacheNames,
                  cacheData, events, online >>
  /\ UNCHANGED pageVars

\* Every cache is deleted.
ShouldDelete_All(cacheName) == TRUE

\* No cache is deleted.
ShouldDelete_None(cacheName) == FALSE

\* if (cacheName !== CACHE_NAME) return caches.delete(cacheName)
ShouldDelete(cacheName) == cacheName # CACHE_NAME

\* caches.keys().then(cacheNames => Promise.all(cacheNames.map(...)))
ActivateKeys ==
  /\ activatePc = "keys"
  /\ toDelete' = { n \in SeqToSet(cacheNames) : ShouldDelete(n) }
  /\ activatePc' = "deleting"
  /\ UNCHANGED << swState, installPc, skipWaitingCalled, claimCalled, deleted,
                  activateStart, cacheNames, cacheData, events, online >>
  /\ UNCHANGED pageVars

\* one caches.delete(cacheName) completes
ActivateDelete ==
  /\ activatePc = "deleting"
  /\ \E n \in toDelete \ deleted :
       /\ cacheNames' = RemoveName(cacheNames, n)
       /\ cacheData' = [cacheData EXCEPT ![n] = EmptyCache]
       /\ deleted' = deleted \cup {n}
  /\ UNCHANGED << swState, installPc, skipWaitingCalled, activatePc, claimCalled,
                  toDelete, activateStart, events, online >>
  /\ UNCHANGED pageVars

\* waitUntil's promise does not wait for the deletions.
ActivateResolved_NoWait ==
  /\ activatePc = "deleting"
  /\ activatePc' = "resolved"
  /\ swState' = "activated"
  /\ UNCHANGED << installPc, skipWaitingCalled, claimCalled, toDelete, deleted,
                  activateStart, cacheNames, cacheData, events, online >>
  /\ UNCHANGED pageVars

\* Promise.all resolves, and with it waitUntil's promise
ActivateResolved ==
  /\ activatePc = "deleting"
  /\ toDelete \subseteq deleted
  /\ activatePc' = "resolved"
  /\ swState' = "activated"
  /\ UNCHANGED << installPc, skipWaitingCalled, claimCalled, toDelete, deleted,
                  activateStart, cacheNames, cacheData, events, online >>
  /\ UNCHANGED pageVars

\* --------------------------------------------------- fetch (lines 43-72)
\* A fetch event: req the request, st the position in the handler, resp what
\* respondWith's promise resolved with, via where resp came from, fetched
\* whether fetch(event.request) was called, net what it returned, put the
\* state of the cache.put the handler issued. afterNet, afterServed and
\* afterStored record what earlier events for the same request had done
\* when this event was delivered.
NewEvent(req) ==
  [ req |-> req,
    st |-> IF IsHttp(req) THEN "match" ELSE "ignored",
    resp |-> NoResp,
    via |-> "none",
    fetched |-> FALSE,
    net |-> NoResp,
    put |-> "none",
    afterNet |-> \E j \in DOMAIN events :
                   /\ events[j].req = req /\ events[j].st = "done"
                   /\ events[j].via = "network" /\ events[j].resp # NoResp,
    afterServed |-> \E j \in DOMAIN events :
                      /\ events[j].req = req /\ events[j].st = "done"
                      /\ events[j].resp # NoResp,
    afterStored |-> \E j \in DOMAIN events :
                      events[j].req = req /\ events[j].put = "stored" ]

\* The listener's synchronous part: respondWith is called for http(s) only.
FetchEvent ==
  /\ swState = "activated"
  /\ Len(events) < MaxEvents
  /\ \E req \in FetchRequests : events' = Append(events, NewEvent(req))
  /\ UNCHANGED << swState, installPc, skipWaitingCalled, activatePc, claimCalled,
                  toDelete, deleted, activateStart, cacheNames, cacheData, online >>
  /\ UNCHANGED pageVars

\* The handler goes to the network whatever the cache holds.
OnMatch_NetworkFirst(e, cachedResponse) == [e EXCEPT !.st = "fetch"]

\* if (cachedResponse) return cachedResponse; otherwise fetch
OnMatch(e, cachedResponse) ==
  IF cachedResponse # NoResp
    THEN [e EXCEPT !.st = "done", !.resp = cachedResponse, !.via = "cache"]
    ELSE [e EXCEPT !.st = "fetch"]

\* caches.match(event.request).then(cachedResponse => ...)
FetchMatch ==
  /\ \E i \in DOMAIN events :
       /\ events[i].st = "match"
       /\ events' = [events EXCEPT ![i] = OnMatch(events[i], CachesMatch(events[i].req))]
  /\ UNCHANGED << swState, installPc, skipWaitingCalled, activatePc, claimCalled,
                  toDelete, deleted, activateStart, cacheNames, cacheData, online >>
  /\ UNCHANGED pageVars

\* The opaque test is missing.
SkipCaching_NoOpaqueTest(networkResponse) == networkResponse = NoResp

\* if (!networkResponse || networkResponse.type === 'opaque')
SkipCaching(networkResponse) ==
  networkResponse = NoResp \/ networkResponse.type = "opaque"

\* fetch(event.request) resolves with a response
FetchNetworkResponse ==
  /\ online
  /\ \E i \in DOMAIN events, b \in 1..MaxBody :
       /\ events[i].st = "fetch"
       /\ LET networkResponse == NetResp(events[i].req, b) IN
            IF SkipCaching(networkResponse)
              THEN events' = [events EXCEPT ![i].st = "done",
                                            ![i].fetched = TRUE,
                                            ![i].net = networkResponse,
                                            ![i].resp = networkResponse,
                                            ![i].via = "network"]
              ELSE events' = [events EXCEPT ![i].st = "open",
                                            ![i].fetched = TRUE,
                                            ![i].net = networkResponse]
  /\ UNCHANGED << swState, installPc, skipWaitingCalled, activatePc, claimCalled,
                  toDelete, deleted, activateStart, cacheNames, cacheData, online >>
  /\ UNCHANGED pageVars

\* The catch handler leaves the event waiting for another fetch.
OnReject_Retry(e) == [e EXCEPT !.fetched = TRUE]

\* .catch(() => { return undefined; })
OnReject(e) == [e EXCEPT !.st = "done", !.fetched = TRUE, !.resp = NoResp]

\* fetch(event.request) rejects: .catch(() => undefined)
FetchNetworkRejected ==
  /\ ~online
  /\ \E i \in DOMAIN events :
       /\ events[i].st = "fetch"
       /\ events' = [events EXCEPT ![i] = OnReject(events[i])]
  /\ UNCHANGED << swState, installPc, skipWaitingCalled, activatePc, claimCalled,
                  toDelete, deleted, activateStart, cacheNames, cacheData, online >>
  /\ UNCHANGED pageVars

\* The response is returned without a cache.put.
OnOpen_NoPut(e) ==
  [e EXCEPT !.st = "done", !.resp = e.net, !.via = "network"]

\* cache.put(event.request, networkResponse.clone()); return networkResponse
OnOpen(e) ==
  [e EXCEPT !.st = "done", !.put = "pending", !.resp = e.net, !.via = "network"]

\* caches.open(CACHE_NAME).then(cache => { cache.put(...); return networkResponse })
\* The put is started and not awaited.
FetchOpenPut ==
  /\ \E i \in DOMAIN events :
       /\ events[i].st = "open"
       /\ events' = [events EXCEPT ![i] = OnOpen(events[i])]
  /\ cacheNames' = OpenNames(cacheNames, CACHE_NAME)
  /\ UNCHANGED << swState, installPc, skipWaitingCalled, activatePc, claimCalled,
                  toDelete, deleted, activateStart, cacheData, online >>
  /\ UNCHANGED pageVars

\* a pending cache.put writes its entry
PutCommit ==
  /\ \E i \in DOMAIN events :
       /\ events[i].put = "pending"
       /\ cacheData' = [cacheData EXCEPT ![CACHE_NAME][events[i].req] = events[i].net]
       /\ events' = [events EXCEPT ![i].put = "stored"]
  /\ UNCHANGED << swState, installPc, skipWaitingCalled, activatePc, claimCalled,
                  toDelete, deleted, activateStart, cacheNames, online >>
  /\ UNCHANGED pageVars

\* a pending cache.put rejects (storage quota); nobody handles the rejection
PutFail ==
  /\ \E i \in DOMAIN events :
       /\ events[i].put = "pending"
       /\ events' = [events EXCEPT ![i].put = "failed"]
  /\ UNCHANGED << swState, installPc, skipWaitingCalled, activatePc, claimCalled,
                  toDelete, deleted, activateStart, cacheNames, cacheData, online >>
  /\ UNCHANGED pageVars

\* connectivity comes and goes
ToggleNetwork ==
  /\ online' = ~online
  /\ UNCHANGED << swState, installPc, skipWaitingCalled, activatePc, claimCalled,
                  toDelete, deleted, activateStart, cacheNames, cacheData, events >>
  /\ UNCHANGED pageVars


\* ===================================================================== page
\* Two distinct coordinates: of a geolocation fix, a search result, a click
Positions == { 1, 2 }

\* What the user may have typed into the search box
Queries == { << >>, << " " >>, << "a" >>, << " ", "a", " " >> }

\* String.prototype.trim
RECURSIVE TrimLeft(_)
TrimLeft(s) ==
  IF s # << >> /\ Head(s) = " " THEN TrimLeft(Tail(s)) ELSE s

RECURSIVE TrimRight(_)
TrimRight(s) ==
  IF s # << >> /\ s[Len(s)] = " " THEN TrimRight(SubSeq(s, 1, Len(s) - 1)) ELSE s

Trim(s) == TrimRight(TrimLeft(s))

\* Map.openPopup closes the popup of a search marker that is open
ClosePopups(ms) == [k \in DOMAIN ms |-> [ms[k] EXCEPT !.open = FALSE]]

PageInit ==
  /\ currentLocation = 0
  /\ userMarker = 0
  /\ geolocPending = 0
  /\ selectMode = FALSE
  /\ selectActive = FALSE
  /\ selectedMarker = 0
  /\ poiLayer = 0
  /\ mapPoiLayers = {}
  /\ nextLayer = 0
  /\ poiClasses = {}
  /\ poiRequests = 0
  /\ geoRequests = 0
  /\ markers = << >>
  /\ waypoints = << >>
  /\ routingOnMap = FALSE
  /\ routeHandlers = 0
  /\ routePending = FALSE
  /\ panelRenders = 0
  /\ alerts = 0
  /\ failedLast = FALSE
  /\ poiHidden = FALSE
  /\ routeClicked = FALSE
  /\ userActions = 0

\* searchButton click (lines 129-134)
SearchClick ==
  /\ userActions < MaxActions
  /\ \E q \in Queries :
       geoRequests' = IF Trim(q) # << >> THEN geoRequests + 1 ELSE geoRequests
  /\ userActions' = userActions + 1
  /\ UNCHANGED << currentLocation, userMarker, geolocPending, selectMode,
                  selectActive, selectedMarker, poiLayer,
                  mapPoiLayers, nextLayer, poiClasses, poiRequests, markers,
                  waypoints, routingOnMap, routeHandlers, routePending,
                  panelRenders, alerts >>
  /\ failedLast' = FALSE
  /\ UNCHANGED poiHidden
  /\ routeClicked' = FALSE
  /\ UNCHANGED swVars

\* geocodeQuery, results.length > 0 (lines 239-269): the marker is added and
\* its popup opened before the 'popupopen' handler is registered
GeocodeFound ==
  /\ geoRequests > 0
  /\ \E p \in Positions :
       markers' = Append(ClosePopups(markers),
                         [dest |-> p, open |-> TRUE, listeners |-> 0])
  /\ geoRequests' = geoRequests - 1
  /\ UNCHANGED << currentLocation, userMarker, geolocPending, selectMode,
                  selectActive, selectedMarker, poiLayer,
                  mapPoiLayers, nextLayer, poiClasses, poiRequests, waypoints,
                  routingOnMap, routeHandlers, routePending, panelRenders,
                  alerts, userActions >>
  /\ failedLast' = FALSE
  /\ UNCHANGED poiHidden
  /\ routeClicked' = FALSE
  /\ UNCHANGED swVars

\* geocodeQuery, no result (lines 270-272)
GeocodeEmpty ==
  /\ geoRequests > 0
  /\ geoRequests' = geoRequests - 1
  /\ alerts' = alerts + 1
  /\ UNCHANGED << currentLocation, userMarker, geolocPending, selectMode,
                  selectActive, selectedMarker, poiLayer,
                  mapPoiLayers, nextLayer, poiClasses, poiRequests, markers,
                  waypoints, routingOnMap, routeHandlers, routePending,
                  panelRenders, userActions >>
  /\ failedLast' = FALSE
  /\ UNCHANGED poiHidden
  /\ routeClicked' = FALSE
  /\ UNCHANGED swVars

\* geocodeQuery, the fetch or res.json() rejects (lines 274-277)
GeocodeFail ==
  /\ geoRequests > 0
  /\ geoRequests' = geoRequests - 1
  /\ alerts' = alerts + 1
  /\ UNCHANGED << currentLocation, userMarker, geolocPending, selectMode,
                  selectActive, selectedMarker, poiLayer,
                  mapPoiLayers, nextLayer, poiClasses, poiRequests, markers,
                  waypoints, routingOnMap, routeHandlers, routePending,
                  panelRenders, userActions >>
  /\ failedLast' = TRUE
  /\ UNCHANGED poiHidden
  /\ routeClicked' = FALSE
  /\ UNCHANGED swVars

\* locateButton click (lines 145-168)
LocateClick ==
  /\ userActions < MaxActions
  /\ userActions' = userActions + 1
  /\ \E hasGeolocation \in BOOLEAN :
       IF hasGeolocation
         THEN /\ geolocPending' = geolocPending + 1
              /\ alerts' = alerts
         ELSE /\ geolocPending' = geolocPending
              /\ alerts' = alerts + 1
  /\ UNCHANGED << currentLocation, userMarker, selectMode, selectActive,
                  selectedMarker, poiLayer, mapPoiLayers,
                  nextLayer, poiClasses, poiRequests, geoRequests, markers,
                  waypoints, routingOnMap, routeHandlers, routePending,
                  panelRenders >>
  /\ failedLast' = FALSE
  /\ UNCHANGED poiHidden
  /\ routeClicked' = FALSE
  /\ UNCHANGED swVars

\* getCurrentPosition success callback (lines 148-160)
GeolocSuccess ==
  /\ geolocPending > 0
  /\ geolocPending' = geolocPending - 1
  /\ \E p \in Positions :
       /\ currentLocation' = p
       /\ userMarker' = p
  /\ UNCHANGED << selectMode, selectActive, selectedMarker,
                  poiLayer, mapPoiLayers, nextLayer, poiClasses, poiRequests,
                  geoRequests, markers, waypoints, routingOnMap, routeHandlers,
                  routePending, panelRenders, alerts, userActions >>
  /\ failedLast' = FALSE
  /\ UNCHANGED poiHidden
  /\ routeClicked' = FALSE
  /\ UNCHANGED swVars

\* getCurrentPosition error callback (lines 161-163)
GeolocFail ==
  /\ geolocPending > 0
  /\ geolocPending' = geolocPending - 1
  /\ alerts' = alerts + 1
  /\ UNCHANGED << currentLocation, userMarker, selectMode, selectActive,
                  selectedMarker, poiLayer, mapPoiLayers,
                  nextLayer, poiClasses, poiRequests, geoRequests, markers,
                  waypoints, routingOnMap, routeHandlers, routePending,
                  panelRenders, userActions >>
  /\ failedLast' = TRUE
  /\ UNCHANGED poiHidden
  /\ routeClicked' = FALSE
  /\ UNCHANGED swVars

\* selectButton click (lines 199-213)
SelectClick ==
  /\ selectMode' = ~selectMode
  /\ IF ~selectMode
       THEN /\ selectActive' = TRUE
            /\ UNCHANGED selectedMarker
       ELSE /\ selectActive' = FALSE
            /\ selectedMarker' = 0
  /\ UNCHANGED << currentLocation, userMarker, geolocPending, poiLayer,
                  mapPoiLayers, nextLayer, poiClasses, poiRequests, geoRequests,
                  markers, waypoints, routingOnMap, routeHandlers, routePending,
                  panelRenders, alerts, userActions >>
  /\ failedLast' = FALSE
  /\ UNCHANGED poiHidden
  /\ routeClicked' = FALSE
  /\ UNCHANGED swVars

\* map click (lines 78-116); the open popups close on the click
MapClick ==
  /\ markers' = ClosePopups(markers)
  /\ IF ~selectMode
       THEN UNCHANGED << selectedMarker, selectMode, selectActive >>
       ELSE /\ \E p \in Positions : selectedMarker' = p
            /\ selectMode' = FALSE
            /\ selectActive' = FALSE
  /\ UNCHANGED << currentLocation, userMarker, geolocPending, poiLayer,
                  mapPoiLayers, nextLayer, poiClasses, poiRequests, geoRequests,
                  waypoints, routingOnMap, routeHandlers, routePending,
                  panelRenders, alerts, userActions >>
  /\ failedLast' = FALSE
  /\ UNCHANGED poiHidden
  /\ routeClicked' = FALSE
  /\ UNCHANGED swVars

\* The user clicks a search marker: its popup closes, or it opens, its
\* content is rebuilt and the 'popupopen' handler (lines 256-269) adds the
\* click listener to the button
MarkerClick ==
  /\ \E m \in DOMAIN markers :
       IF markers[m].open
         THEN markers' = [markers EXCEPT ![m].open = FALSE]
         ELSE markers' = [ClosePopups(markers) EXCEPT ![m].open = TRUE,
                                                      ![m].listeners = 1]
  /\ UNCHANGED << currentLocation, userMarker, geolocPending, selectMode,
                  selectActive, selectedMarker, poiLayer,
                  mapPoiLayers, nextLayer, poiClasses, poiRequests, geoRequests,
                  waypoints, routingOnMap, routeHandlers, routePending,
                  panelRenders, alerts, userActions >>
  /\ failedLast' = FALSE
  /\ UNCHANGED poiHidden
  /\ routeClicked' = FALSE
  /\ UNCHANGED swVars

\* click on 'Route from current location' (lines 259-267) and calculateRoute
\* (lines 281-299)
RouteClick ==
  /\ userActions < MaxActions
  /\ userActions' = userActions + 1
  /\ \E m \in DOMAIN markers :
       /\ markers[m].open
       /\ IF markers[m].listeners = 0
            THEN UNCHANGED << alerts, waypoints, routingOnMap, routeHandlers,
                              routePending >>
            ELSE IF currentLocation = 0
              THEN /\ alerts' = alerts + 1
                   /\ UNCHANGED << waypoints, routingOnMap, routeHandlers,
                                   routePending >>
              ELSE /\ waypoints' = << currentLocation, markers[m].dest >>
                   /\ routingOnMap' = TRUE
                   /\ routeHandlers' = routeHandlers + 1
                   /\ routePending' = TRUE
                   /\ alerts' = alerts
  /\ UNCHANGED << currentLocation, userMarker, geolocPending, selectMode,
                  selectActive, selectedMarker, poiLayer,
                  mapPoiLayers, nextLayer, poiClasses, poiRequests, geoRequests,
                  markers, panelRenders >>
  /\ failedLast' = FALSE
  /\ UNCHANGED poiHidden
  /\ routeClicked' = TRUE
  /\ UNCHANGED swVars

\* 'routesfound': every registered handler calls showDirections
RoutesFound ==
  /\ routePending
  /\ routePending' = FALSE
  /\ panelRenders' = panelRenders + routeHandlers
  /\ UNCHANGED << currentLocation, userMarker, geolocPending, selectMode,
                  selectActive, selectedMarker, poiLayer,
                  mapPoiLayers, nextLayer, poiClasses, poiRequests, geoRequests,
                  markers, waypoints, routingOnMap, routeHandlers, alerts,
                  userActions >>
  /\ failedLast' = FALSE
  /\ UNCHANGED poiHidden
  /\ routeClicked' = FALSE
  /\ UNCHANGED swVars

\* 'routingerror': every registered handler calls alert
RoutingError ==
  /\ routePending
  /\ routePending' = FALSE
  /\ alerts' = alerts + routeHandlers
  /\ UNCHANGED << currentLocation, userMarker, geolocPending, selectMode,
                  selectActive, selectedMarker, poiLayer,
                  mapPoiLayers, nextLayer, poiClasses, poiRequests, geoRequests,
                  markers, waypoints, routingOnMap, routeHandlers, panelRenders,
                  userActions >>
  /\ failedLast' = TRUE
  /\ UNCHANGED poiHidden
  /\ routeClicked' = FALSE
  /\ UNCHANGED swVars

\* poiButton click (lines 216-224) and the synchronous part of fetchPOIs
\* (lines 323-343)
PoiClick ==
  /\ userActions < MaxActions
  /\ userActions' = userActions + 1
  /\ IF poiLayer # 0
       THEN /\ mapPoiLayers' = mapPoiLayers \ { poiLayer }
            /\ poiLayer' = 0
            /\ poiClasses' = poiClasses \ { "active" }
            /\ poiRequests' = poiRequests
            /\ poiHidden' = TRUE
       ELSE /\ poiClasses' = poiClasses \cup { "loading" }
            /\ poiRequests' = poiRequests + 1
            /\ poiHidden' = FALSE
            /\ UNCHANGED << poiLayer, mapPoiLayers >>
  /\ UNCHANGED << currentLocation, userMarker, geolocPending, selectMode,
                  selectActive, selectedMarker, nextLayer,
                  geoRequests, markers, waypoints, routingOnMap, routeHandlers,
                  routePending, panelRenders, alerts >>
  /\ failedLast' = FALSE
  /\ routeClicked' = FALSE
  /\ UNCHANGED swVars

\* The failure handler also drops the POI layer.
OnPoiFail_DropLayer(layer, onMap) == [layer |-> 0, onMap |-> onMap \ { layer }]

\* fetchPOIs .catch (lines 370-376): poiLayer and the map are not touched
OnPoiFail(layer, onMap) == [layer |-> layer, onMap |-> onMap]

\* The layer poiLayer refers to stays on the map.
OnPoiLoaded_KeepOld(layer, onMap, new) ==
  [layer |-> new, onMap |-> onMap \cup { new }]

\* if (poiLayer) map.removeLayer(poiLayer); poiLayer = L.layerGroup(); ...
\* poiLayer.addTo(map) (lines 346-364)
OnPoiLoaded(layer, onMap, new) ==
  [layer |-> new, onMap |-> (onMap \ { layer }) \cup { new }]

\* fetchPOIs, the response arrived and parsed (lines 345-369)
PoiLoaded ==
  /\ poiRequests > 0
  /\ poiRequests' = poiRequests - 1
  /\ nextLayer' = nextLayer + 1
  /\ LET after == OnPoiLoaded(poiLayer, mapPoiLayers, nextLayer + 1) IN
       /\ poiLayer' = after.layer
       /\ mapPoiLayers' = after.onMap
  /\ poiClasses' = (poiClasses \ { "loading" }) \cup { "active" }
  /\ UNCHANGED << currentLocation, userMarker, geolocPending, selectMode,
                  selectActive, selectedMarker, geoRequests,
                  markers, waypoints, routingOnMap, routeHandlers, routePending,
                  panelRenders, alerts, userActions >>
  /\ failedLast' = FALSE
  /\ UNCHANGED poiHidden
  /\ routeClicked' = FALSE
  /\ UNCHANGED swVars

\* fetchPOIs, the fetch or res.json() rejects (lines 370-376)
PoiFail ==
  /\ poiRequests > 0
  /\ poiRequests' = poiRequests - 1
  /\ alerts' = alerts + 1
  /\ poiClasses' = poiClasses \ { "loading" }
  /\ LET after == OnPoiFail(poiLayer, mapPoiLayers) IN
       /\ poiLayer' = after.layer
       /\ mapPoiLayers' = after.onMap
  /\ UNCHANGED << currentLocation, userMarker, geolocPending, selectMode,
                  selectActive, selectedMarker, nextLayer,
                  geoRequests, markers, waypoints, routingOnMap, routeHandlers,
                  routePending, panelRenders, userActions >>
  /\ failedLast' = TRUE
  /\ UNCHANGED poiHidden
  /\ routeClicked' = FALSE
  /\ UNCHANGED swVars

Init == SWInit /\ PageInit

Next ==
  \/ InstallEvent
  \/ InstallOpen
  \/ InstallAddAll
  \/ InstallSkipWaiting
  \/ ActivateEvent
  \/ ActivateKeys
  \/ ActivateDelete
  \/ ActivateResolved
  \/ FetchEvent
  \/ FetchMatch
  \/ FetchNetworkResponse
  \/ FetchNetworkRejected
  \/ FetchOpenPut
  \/ PutCommit
  \/ PutFail
  \/ ToggleNetwork

Spec == Init /\ [][Next]_vars

\* ------------------------------------------ the next generation installs
\* While this worker is active a later version of the script, whose
\* CACHE_NAME is NewerName, runs the same install handler (lines 16-24).
NewerName == "osm-explorer-cache-v2"

\* caches.open(CACHE_NAME) of the later version
NewerOpen ==
  /\ swState = "activated"
  /\ NewerName \notin SeqToSet(cacheNames)
  /\ cacheNames' = OpenNames(cacheNames, NewerName)
  /\ UNCHANGED << swState, installPc, skipWaitingCalled, activatePc, claimCalled,
                  toDelete, deleted, activateStart, cacheData, events, online >>
  /\ UNCHANGED pageVars

\* cache.addAll(CORE_ASSETS) of the later version
NewerAddAll ==
  /\ swState = "activated"
  /\ NewerName \in SeqToSet(cacheNames)
  /\ cacheData[NewerName] = EmptyCache
  /\ online
  /\ cacheData' = [cacheData EXCEPT
                     ![NewerName] = AddAll(cacheData[NewerName], CORE_ASSETS, {}).entries]
  /\ UNCHANGED << swState, installPc, skipWaitingCalled, activatePc, claimCalled,
                  toDelete, deleted, activateStart, cacheNames, events, online >>
  /\ UNCHANGED pageVars

GenNext ==
  \/ InstallEvent
  \/ InstallOpen
  \/ InstallAddAll
  \/ InstallSkipWaiting
  \/ ActivateEvent
  \/ ActivateKeys
  \/ ActivateDelete
  \/ ActivateResolved
  \/ FetchEvent
  \/ FetchMatch
  \/ FetchNetworkResponse
  \/ FetchNetworkRejected
  \/ FetchOpenPut
  \/ PutCommit
  \/ PutFail
  \/ ToggleNetwork
  \/ NewerOpen
  \/ NewerAddAll

\* The worker while the next generation installs beside it
GenSpec == Init /\ [][GenNext]_vars

\* The page alone: the worker stays as it was registered
PageSpecInit ==
  /\ SWInit
  /\ cacheNames = << >>
  /\ online
  /\ PageInit

PageNext ==
  \/ SearchClick
  \/ GeocodeFound
  \/ GeocodeEmpty
  \/ GeocodeFail
  \/ LocateClick
  \/ GeolocSuccess
  \/ GeolocFail
  \/ SelectClick
  \/ MapClick
  \/ MarkerClick
  \/ RouteClick
  \/ RoutesFound
  \/ RoutingError
  \/ PoiClick
  \/ PoiLoaded
  \/ PoiFail

PageSpec == PageSpecInit /\ [][PageNext]_vars

\* =================================================================== claims
Handled(e) == e.st # "ignored"

HttpProtocols == { << "h","t","t","p",":" >>, << "h","t","t","p","s",":" >> }

CurrentCache == cacheData[CACHE_NAME]

\* C1: a fetch event whose request has a match in cache storage when
\* caches.match runs is answered with that cached response; the step writes
\* nothing to a cache, and an event answered from the cache never calls
\* fetch and never issues a cache.put.
C1_CacheFirst ==
  [][ /\ \A i \in DOMAIN events :
           ( /\ events[i].st = "match"
             /\ CachesMatch(events[i].req) # NoResp
             /\ events'[i] # events[i] )
           => /\ events'[i].st = "done"
              /\ events'[i].via = "cache"
              /\ events'[i].resp = CachesMatch(events[i].req)
              /\ cacheData' = cacheData
              /\ cacheNames' = cacheNames
      /\ \A i \in DOMAIN events' :
           events'[i].via = "cache"
           => /\ ~events'[i].fetched
              /\ events'[i].net = NoResp
              /\ events'[i].put = "none"
    ]_vars

C1_Witness ==
  \E i \in DOMAIN events :
    events[i].st = "done" /\ events[i].via = "cache" /\ events[i].resp # NoResp

\* C2 (as claimed): every network response of an uncached request is
\* returned and stored in the cache CACHE_NAME, and every later event for
\* that request is answered from the cache without a network fetch.
C2_Original ==
  /\ \A i \in DOMAIN events :
       (events[i].st = "done" /\ events[i].via = "network")
       => /\ events[i].resp = events[i].net
          /\ events[i].put \in { "pending", "stored" }
  /\ \A j \in DOMAIN events :
       (events[j].afterNet /\ events[j].st = "done")
       => (events[j].via = "cache" /\ ~events[j].fetched)

\* C2 (amended): a network response of an uncached request is returned
\* unchanged; when it is not opaque a cache.put of it under the same request
\* into the cache CACHE_NAME is started; a completed put leaves a copy of a
\* stored network response under that request in CACHE_NAME, and every event
\* for the request delivered after a completed put is answered from the
\* cache without a network fetch.
C2_Amended ==
  /\ \A i \in DOMAIN events :
       (events[i].st = "done" /\ events[i].via = "network")
       => /\ events[i].resp = events[i].net
          /\ events[i].net # NoResp
          /\ events[i].net.type # "opaque" => events[i].put # "none"
  /\ \A i \in DOMAIN events :
       events[i].put = "stored"
       => /\ CACHE_NAME \in SeqToSet(cacheNames)
          /\ \E k \in DOMAIN events :
               /\ events[k].req = events[i].req
               /\ events[k].put = "stored"
               /\ CurrentCache[events[i].req] = events[k].net
  /\ \A j \in DOMAIN events :
       (events[j].afterStored /\ events[j].st = "done")
       => (events[j].via = "cache" /\ ~events[j].fetched)

C2_Witness ==
  \E i, j \in DOMAIN events :
    /\ i < j
    /\ events[i].put = "stored"
    /\ events[j].afterStored
    /\ events[j].st = "done"
    /\ events[j].resp = events[i].net

\* C3 (as claimed): a tile or app asset that was answered with a response
\* once is answered with a response by every later fetch event.
C3_OfflineAvailable ==
  \A j \in DOMAIN events :
    ( /\ events[j].req \in CORE_ASSETS \cup { TileRequest }
      /\ events[j].afterServed
      /\ events[j].st = "done" )
    => events[j].resp # NoResp

\* C4 (as claimed): respondWith is called for every fetch event.
C4_Original == \A i \in DOMAIN events : Handled(events[i])

\* C4 (amended): respondWith is called for exactly the fetch events whose
\* URL is http: or https:; for every other event the handler returns
\* without calling it (no response, no fetch, no cache write).
C4_Amended ==
  \A i \in DOMAIN events :
    /\ Handled(events[i]) <=> ProtocolOf(events[i].req) \in HttpProtocols
    /\ ~Handled(events[i])
       => /\ events[i].resp = NoResp
          /\ ~events[i].fetched
          /\ events[i].put = "none"

C4_Witness ==
  \E i, j \in DOMAIN events :
    /\ ~Handled(events[i])
    /\ events[j].st = "done" /\ events[j].resp # NoResp

\* C5: once the activate handler's waitUntil promise has resolved, cache
\* storage holds no cache named otherwise than CACHE_NAME, every cache that
\* had another name when activation started has been deleted, and the cache
\* CACHE_NAME exists with the entries it had when activation started.
C5_GarbageCollection ==
  activatePc = "resolved"
  => /\ \A n \in SeqToSet(cacheNames) : n = CACHE_NAME
     /\ \A n \in activateStart.names :
          n # CACHE_NAME => (n \in deleted /\ cacheData[n] = EmptyCache)
     /\ CACHE_NAME \in SeqToSet(cacheNames)
     /\ CACHE_NAME \notin deleted
     /\ events = << >> => CurrentCache = activateStart.current
     /\ \A r \in Requests :
          activateStart.current[r] # NoResp => CurrentCache[r] # NoResp

C5_Witness ==
  /\ activatePc = "resolved"
  /\ Cardinality(deleted) = 2
  /\ events = << >>

\* C6 (as claimed): no fetch event before the install succeeded, and
\* clients.claim() only after the cleanup of activation has completed.
C6_Original ==
  /\ events # << >> => installPc = "resolved"
  /\ claimCalled => activatePc = "resolved"

\* C6 (amended): the worker handles no fetch event before its install
\* pre-caching has succeeded and the stale-cache cleanup of activation has
\* completed; clients.claim() is called when the activate handler starts,
\* after the install has succeeded.
C6_Amended ==
  /\ events # << >>
     => /\ installPc = "resolved"
        /\ \A a \in CORE_ASSETS : CurrentCache[a] # NoResp
        /\ activatePc = "resolved"
        /\ SeqToSet(cacheNames) = { CACHE_NAME }
  /\ claimCalled <=> activatePc # "idle"
  /\ claimCalled => installPc = "resolved"

C6_Witness ==
  /\ events # << >>
  /\ claimCalled
  /\ deleted # {}

\* C7: after a successful install each of the seven CORE_ASSETS is in the
\* cache CACHE_NAME; after a failed install nothing was stored, skipWaiting
\* was not called, and the worker is redundant: it does not activate,
\* deletes no cache and handles no fetch event.
C7_InstallAllOrNothing ==
  /\ Cardinality(CORE_ASSETS) = 7
  /\ installPc = "resolved"
     => /\ CACHE_NAME \in SeqToSet(cacheNames)
        /\ \A a \in CORE_ASSETS : CurrentCache[a] # NoResp
  /\ swState \in { "installed", "activating", "activated" }
     => installPc = "resolved"
  /\ installPc = "rejected"
     => /\ CurrentCache = EmptyCache
        /\ ~skipWaitingCalled
        /\ swState = "redundant"
        /\ activatePc = "idle"
        /\ ~claimCalled
        /\ deleted = {}
        /\ events = << >>

C7_Witness ==
  /\ installPc = "rejected"
  /\ online
  /\ CACHE_NAME \in SeqToSet(cacheNames)

\* C8: when the network answers an uncached request with an opaque response
\* (or with none), the handler returns it unchanged; the step writes no
\* cache, and the event never issues a cache.put.
C8_OpaqueSkipped ==
  [][ /\ \A i \in DOMAIN events :
           ( /\ events[i].st = "fetch"
             /\ events'[i].st # "fetch"
             /\ events'[i].net.type \in { "opaque", "none" } )
           => /\ events'[i].st = "done"
              /\ events'[i].resp = events'[i].net
              /\ cacheData' = cacheData
              /\ cacheNames' = cacheNames
      /\ \A i \in DOMAIN events' :
           (events'[i].fetched /\ events'[i].net.type \in { "opaque", "none" })
           => /\ events'[i].put = "none"
              /\ events'[i].st = "done"
    ]_vars

C8_Witness ==
  \E i \in DOMAIN events :
    /\ events[i].st = "done"
    /\ events[i].net.type = "opaque"
    /\ events[i].resp = events[i].net

\* C9: a failed geocoding, POI, geolocation or route request ends in an
\* alert; the failure handler starts no request (no retry) and leaves the
\* markers, the POI layer, the current location and the select mode as they
\* were.
C9_FailureIsAlertOnly ==
  [][ failedLast'
      => /\ alerts' > alerts
         /\ geoRequests' <= geoRequests
         /\ poiRequests' <= poiRequests
         /\ geolocPending' <= geolocPending
         /\ routePending' => routePending
         /\ UNCHANGED << markers, userMarker, selectedMarker, poiLayer,
                         mapPoiLayers, currentLocation, selectMode,
                         selectActive, waypoints >>
    ]_vars

C9_Witness ==
  /\ failedLast
  /\ alerts > 0
  /\ poiLayer # 0
  /\ poiLayer \in mapPoiLayers
  /\ poiRequests = 0
  /\ poiClasses = { "active" }

\* C10 (as claimed): at most one POI request and at most one geocoding
\* request is in flight.
C10_SingleInFlight ==
  /\ poiRequests <= 1
  /\ geoRequests <= 1

\* C11: when an uncached http(s) request's fetch is rejected, the handler
\* resolves with no response; the step writes no cache, the event issues no
\* cache.put, and an event that has called fetch never fetches again.
C11_OfflineNotCached ==
  [][ /\ \A i \in DOMAIN events :
           ( /\ events[i].st = "fetch"
             /\ ~online
             /\ events'[i] # events[i] )
           => /\ events'[i].st = "done"
              /\ events'[i].fetched
              /\ events'[i].resp = NoResp
              /\ events'[i].put = "none"
              /\ cacheData' = cacheData
              /\ cacheNames' = cacheNames
      /\ \A i \in DOMAIN events :
           events[i].fetched
           => /\ events'[i].st \notin { "match", "fetch" }
              /\ events'[i].net = events[i].net
      /\ \A i \in DOMAIN events' :
           (events'[i].fetched /\ events'[i].net = NoResp)
           => /\ events'[i].st = "done"
              /\ events'[i].resp = NoResp
              /\ events'[i].put = "none"
    ]_vars

C11_Witness ==
  \E i \in DOMAIN events :
    /\ events[i].st = "done"
    /\ events[i].fetched
    /\ events[i].net = NoResp
    /\ events[i].resp = NoResp
    /\ CachesMatch(events[i].req) = NoResp

\* The name of the first cache, in creation order, that holds the request
RECURSIVE MatchedCache(_, _, _)
MatchedCache(names, data, req) ==
  IF names = << >> THEN "none"
  ELSE IF data[Head(names)][req] # NoResp THEN Head(names)
  ELSE MatchedCache(Tail(names), data, req)

C13_RouteButtonLive ==
  [][ routeClicked'
      => IF currentLocation # 0
           THEN routeHandlers' = routeHandlers + 1 /\ routePending'
           ELSE alerts' = alerts + 1
    ]_vars

\* C14 (as claimed): after a click that hid the POI layer, no POI layer is
\* on the map and the button is not 'active' until the next click.
C14_HiddenStays ==
  poiHidden
  => /\ poiLayer = 0
     /\ mapPoiLayers = {}
     /\ "active" \notin poiClasses

\* C15 (as claimed): the POI button has the class 'loading' exactly when a
\* POI request is in flight.
C15_LoadingAccurate == ("loading" \in poiClasses) <=> (poiRequests > 0)

\* C16: the POI button is 'active' exactly when poiLayer is non-null,
\* poiLayer is non-null exactly when a POI layer is on the map, and the only
\* POI layer on the map is the one poiLayer refers to.
C16_ToggleConsistent ==
  /\ ("active" \in poiClasses) <=> (poiLayer # 0)
  /\ (poiLayer # 0) <=> (mapPoiLayers # {})
  /\ Cardinality(mapPoiLayers) <= 1
  /\ mapPoiLayers \subseteq { poiLayer }

C16_Witness ==
  /\ nextLayer >= 2
  /\ poiLayer = nextLayer
  /\ mapPoiLayers = { poiLayer }
  /\ poiRequests = 0
  /\ alerts > 0

\* C17 (as claimed): a 'routesfound' event renders the directions panel
\* once and a 'routingerror' event shows one alert.
C17_OneReaction ==
  [][ (routePending /\ ~routePending')
      => IF failedLast'
           THEN alerts' = alerts + 1
           ELSE panelRenders' = panelRenders + 1
    ]_vars

\* C18 (as claimed): calculateRoute is only called with currentLocation set
\* and makes it the start waypoint; a click on the route button while
\* currentLocation is null shows an alert and leaves the waypoints and the
\* directions panel as they were.
C18_KnownStart ==
  [][ /\ routeHandlers' # routeHandlers
         => /\ currentLocation # 0
            /\ Len(waypoints') = 2
            /\ waypoints'[1] = currentLocation
      /\ (routeClicked' /\ currentLocation = 0)
         => /\ alerts' = alerts + 1
            /\ UNCHANGED << waypoints, panelRenders >>
    ]_vars

====
